---- MODULE Spec2Model ----
(***************************************************************************)
(* A model of the core of versionist:                                      *)
(*   - lib/semver.js   : the increment-level resolver,                     *)
(*   - lib/presets.js  : the version cleaner, the four updateVersion       *)
(*                       presets and addEntryToChangelog.prepend.          *)
(*                                                                         *)
(* Texts are sequences of one-character strings ("\n" is the line feed).   *)
(* A JavaScript value that may be null/undefined is a record with a        *)
(* `kind` field, so that values of different types are never compared.     *)
(***************************************************************************)
EXTENDS Integers, Sequences, FiniteSets, TLC

VARIABLES
  \* ---- lib/semver.js: calculateNextIncrementLevel
  commits,        \* the `commits` argument: [given |-> BOOLEAN, list |-> Seq(level)]
  idx,            \* position of _.reduce in the commit list
  currentLevel,   \* the accumulator of _.reduce
  semStatus,      \* "idle" | "running" | "returned" | "thrown"
  semError,       \* message class of the thrown Error, "" when none
  classifyCalls   \* number of calls of options.getIncrementLevelFromCommit

semVars == <<commits, idx, currentLevel, semStatus, semError, classifyCalls>>

VARIABLES
  \* ---- lib/presets.js: addEntryToChangelog.prepend
  clFile,         \* the changelog file: [exists |-> BOOLEAN, text |-> text]
  clFile0,        \* the changelog file as it was when prepend was called
  clEntry,        \* the `entry` argument
  clFromLine,     \* options.fromLine after _.defaults
  clPc,           \* "idle" | "touch" | "read" | "merge" | "write" | "done"
  clBuf,          \* the value the waterfall passes to its next task
  clCallbacks,    \* number of calls of `callback`
  clError,        \* the error given to `callback`, "" when none
  clEntries       \* the `entry` arguments of the calls so far, oldest first

clVars == <<clFile, clFile0, clEntry, clFromLine, clPc, clBuf, clCallbacks, clError,
            clEntries>>

VARIABLES
  \* ---- lib/presets.js: updateVersion and replace
  fs,             \* the files: name -> [exists |-> BOOLEAN, text |-> text]
  fs0,            \* the files as they were when the preset was called
  upVariant,      \* the preset called: "npm" | "cargo" | "initPy" | "quoted"
  upOptions,      \* its `options` argument
  upVersion,      \* its `version` argument
  upPc,           \* "idle", the next asynchronous step, "done" or "thrown"
  cleanedVersion, \* the local `cleanedVersion`, NotComputed before it is set
  packageName,    \* cargo: the name captured from Cargo.toml
  upBuf,          \* the value the waterfall passes to its next task
  repFile,        \* replace: its `file` argument
  repPattern,     \* replace: its `pattern` argument
  repThen,        \* replace: what its callback is, "callback" or cargo's next task
  ioLog,          \* the file accesses so far, in order: <<operation, file>>
  callbacks,      \* number of calls of the preset's `callback`
  cbError         \* the error given to `callback`, "" when none

upVars == <<fs, fs0, upVariant, upOptions, upVersion, upPc, cleanedVersion, packageName,
            upBuf, repFile, repPattern, repThen, ioLog, callbacks, cbError>>

vars == <<semVars, clVars, upVars>>

-----------------------------------------------------------------------------
(* Bounds *)

MaxCommits == 3

MaxDocLen == 5

MaxEntryLen == 4

MaxFromLine == 3

MaxContentLen == 6

MaxVersionLen == 3

\* Number of prepend calls made one after the other on the same file.
MaxCalls == 3

-----------------------------------------------------------------------------
(* Values *)

\* A JavaScript value that is a string (a text), null or undefined; the outcome
\* of an expression that throws; a local that has not been assigned.
Str(s) == [s |-> s, kind |-> "str"]

Undefined == [s |-> <<>>, kind |-> "undefined"]

Null == [s |-> <<>>, kind |-> "null"]

Thrown == [s |-> <<>>, kind |-> "throw"]

NotComputed == [s |-> <<>>, kind |-> "none"]

\* A file: absent, or present with its text.
NoFile == [exists |-> FALSE, text |-> <<>>]

FileOf(t) == [exists |-> TRUE, text |-> t]

\* The `commits` argument: an array, or undefined.
Commits(given, list) == [given |-> given, list |-> list]

\* A pattern of the code is an anchor, then (when kw # "") the lazy gap of
\* tokens without an opening bracket and the keyword kw, then a quoted literal:
\*   quoted:        the caller's prefix, a quote, any text, the same quote
\*   Cargo.toml:    [package], gap, version=, a quote, any text, the same quote
\*   Cargo.lock:    name=, the quoted package name, gap, version=, a quote,
\*                  any text, the same quote
\*   package name:  [package], gap, name=, a quote, a text of at least one
\*                  token (minLen 1), the same quote
\*   __init__.py:   __version__=, a quote, a semver core, the same quote
\*                  (core # "")
\* "Any text" is lazy and holds no line feed.
Pattern(anchor, kw, minLen, core, global) ==
  [anchor |-> anchor, kw |-> kw, minLen |-> minLen, core |-> core, global |-> global]

\* The result of a regex match: the positions of its first token, of the
\* opening quote of its literal and of the closing quote.
Match(found, start, quote, end) ==
  [found |-> found, start |-> start, quote |-> quote, end |-> end]

NoMatch == Match(FALSE, 0, 0, 0)

\* The clean option: a regex (the literal it matches and its g flag), or
\* "true", "false", "undefined".
CleanRegex(lit, global) == [kind |-> "regex", global |-> global, lit |-> lit]

CleanFlag(kind) == [kind |-> kind, global |-> FALSE, lit |-> <<>>]

\* The regex option of quoted: a RegExp (the literal it matches, its flags) or
\* undefined.
Regex(lit, flags) == [kind |-> "regex", lit |-> lit, flags |-> flags]

NoRegex == [kind |-> "undefined", lit |-> <<>>, flags |-> <<>>]

Options(clean, baseDir, file, regex, regexFlags) ==
  [clean |-> clean, baseDir |-> baseDir, file |-> file, regex |-> regex,
   regexFlags |-> regexFlags]

-----------------------------------------------------------------------------
(* Generic helpers *)

Range(s) == {s[i] : i \in 1..Len(s)}

SeqsUpTo(S, n) == UNION {[1..k -> S] : k \in 0..n}

Max2(a, b) == IF a >= b THEN a ELSE b

Min2(a, b) == IF a <= b THEN a ELSE b

-----------------------------------------------------------------------------
(* lib/semver.js *)

\* VALID_INCREMENT_LEVELS, in precedence order (index 0 is the lowest).
VALID_INCREMENT_LEVELS == <<"patch", "minor", "major">>

\* The values a commit's classification may take in the model: the three
\* levels, null, undefined and one string outside the valid set.
LevelValues == Range(VALID_INCREMENT_LEVELS) \cup {"null", "undefined", "bogus"}

isValidIncrementLevel(level) == level \in Range(VALID_INCREMENT_LEVELS)

\* _.indexOf(VALID_INCREMENT_LEVELS, level): zero-based, -1 when absent.
indexOfLevel(level) ==
  IF \E i \in 1..Len(VALID_INCREMENT_LEVELS) : VALID_INCREMENT_LEVELS[i] = level
  THEN (CHOOSE i \in 1..Len(VALID_INCREMENT_LEVELS) : VALID_INCREMENT_LEVELS[i] = level) - 1
  ELSE -1

\* JavaScript truthiness of a level value (null and undefined are falsy).
isFalsyLevel(level) == level \in {"null", "undefined"}

\* The guard of getHigherIncrementLevel that throws `Invalid increment level`.
levelThrows(level) ==
  /\ level # "undefined"
  /\ level # "null"
  /\ ~isValidIncrementLevel(level)

getHigherIncrementLevelMinBug(firstLevel, secondLevel) ==
  IF isFalsyLevel(firstLevel) /\ isFalsyLevel(secondLevel)
  THEN "null"
  ELSE IF isFalsyLevel(firstLevel) THEN secondLevel
  ELSE IF isFalsyLevel(secondLevel) THEN firstLevel
  ELSE VALID_INCREMENT_LEVELS[Min2(indexOfLevel(firstLevel), indexOfLevel(secondLevel)) + 1]

\* getHigherIncrementLevel, for two levels that pass the validity guard.
getHigherIncrementLevel(firstLevel, secondLevel) ==
  IF isFalsyLevel(firstLevel) /\ isFalsyLevel(secondLevel)
  THEN "null"
  ELSE VALID_INCREMENT_LEVELS[Max2(indexOfLevel(firstLevel), indexOfLevel(secondLevel)) + 1]

\* _.isEmpty(commits): true for undefined and for the empty array.
isEmptyCommits(c) == ~c.given \/ Len(c.list) = 0

calculateNextIncrementLevelNoGuard(c) ==
  /\ semStatus = "idle"
  /\ commits' = c
  /\ idx' = 1
  /\ currentLevel' = "null"
  /\ semStatus' = "running"
  /\ semError' = ""
  /\ UNCHANGED classifyCalls
  /\ UNCHANGED <<clVars, upVars>>

\* calculateNextIncrementLevel(commits, options): entry and the emptiness guard.
calculateNextIncrementLevel(c) ==
  /\ semStatus = "idle"
  /\ commits' = c
  /\ idx' = 1
  /\ currentLevel' = "null"
  /\ IF isEmptyCommits(c)
     THEN /\ semStatus' = "thrown"
          /\ semError' = "EmptyCommitSet"
     ELSE /\ semStatus' = "running"
          /\ semError' = ""
  /\ UNCHANGED classifyCalls
  /\ UNCHANGED <<clVars, upVars>>

\* One iteration of _.reduce: classify the commit, then getHigherIncrementLevel.
ReduceStep ==
  /\ semStatus = "running"
  /\ idx <= Len(commits.list)
  /\ classifyCalls' = classifyCalls + 1
  /\ LET commitLevel == commits.list[idx] IN
       IF levelThrows(commitLevel) \/ levelThrows(currentLevel)
       THEN /\ semStatus' = "thrown"
            /\ semError' = "InvalidIncrementLevel"
            /\ UNCHANGED <<idx, currentLevel>>
       ELSE /\ currentLevel' = getHigherIncrementLevel(commitLevel, currentLevel)
            /\ idx' = idx + 1
            /\ UNCHANGED <<semStatus, semError>>
  /\ UNCHANGED commits
  /\ UNCHANGED <<clVars, upVars>>

\* _.reduce has consumed the list: its accumulator is the return value.
ReduceReturn ==
  /\ semStatus = "running"
  /\ idx > Len(commits.list)
  /\ semStatus' = "returned"
  /\ UNCHANGED <<commits, idx, currentLevel, semError, classifyCalls>>
  /\ UNCHANGED <<clVars, upVars>>

CommitArgs ==
  {Commits(TRUE, l) : l \in SeqsUpTo(LevelValues, MaxCommits)}
    \cup {Commits(FALSE, <<>>)}

SemInit ==
  /\ commits = Commits(FALSE, <<>>)
  /\ idx = 1
  /\ currentLevel = "null"
  /\ semStatus = "idle"
  /\ semError = ""
  /\ classifyCalls = 0

SemCall == \E c \in CommitArgs : calculateNextIncrementLevel(c)

SemNext == SemCall \/ ReduceStep \/ ReduceReturn

-----------------------------------------------------------------------------
(* Texts and lines *)

NL == "\n"

\* Position of the first line feed of a text, 0 when it has none.
FirstNL(t) ==
  IF \E i \in 1..Len(t) : t[i] = NL
  THEN CHOOSE i \in 1..Len(t) : t[i] = NL /\ \A j \in 1..(i - 1) : t[j] # NL
  ELSE 0

RECURSIVE split(_)
\* _.split(text, '\n'): the lines of a text; the empty text has one empty line.
split(t) ==
  IF FirstNL(t) = 0
  THEN <<t>>
  ELSE <<SubSeq(t, 1, FirstNL(t) - 1)>> \o split(SubSeq(t, FirstNL(t) + 1, Len(t)))

RECURSIVE join(_)
\* _.join(lines, '\n'); the empty array gives the empty text.
join(ls) ==
  IF Len(ls) = 0 THEN <<>>
  ELSE IF Len(ls) = 1 THEN ls[1]
  ELSE ls[1] \o <<NL>> \o join(Tail(ls))

\* _.isEmpty on a line (a string): true for the empty string only.
isEmptyLine(l) == Len(l) = 0

\* _.isEmpty on an array of lines.
isEmptyArray(ls) == Len(ls) = 0

RECURSIVE dropWhileEmpty(_)
\* _.dropWhile(array, _.isEmpty)
dropWhileEmpty(ls) ==
  IF Len(ls) > 0 /\ isEmptyLine(ls[1]) THEN dropWhileEmpty(Tail(ls)) ELSE ls

RECURSIVE dropRightWhileEmpty(_)
\* _.dropRightWhile(array, _.isEmpty)
dropRightWhileEmpty(ls) ==
  IF Len(ls) > 0 /\ isEmptyLine(ls[Len(ls)])
  THEN dropRightWhileEmpty(SubSeq(ls, 1, Len(ls) - 1))
  ELSE ls

\* _.slice(array, 0, end) for end >= 0
sliceTo(ls, end) == SubSeq(ls, 1, Min2(end, Len(ls)))

\* _.slice(array, start) for start >= 0
sliceFrom(ls, start) == SubSeq(ls, start + 1, Len(ls))

-----------------------------------------------------------------------------
(* lib/presets.js: addEntryToChangelog.prepend *)

combineNoTrim(accumulator, array) ==
  IF isEmptyArray(accumulator)
  THEN array
  ELSE accumulator \o << <<>> >> \o array

combineNoSeparator(accumulator, array) ==
  dropRightWhileEmpty(accumulator) \o dropWhileEmpty(array)

\* The reducer of prepend: (accumulator, array) => ...
combine(accumulator, array) ==
  LET head == dropRightWhileEmpty(accumulator)
      body == dropWhileEmpty(array)
  IN IF isEmptyArray(head)
     THEN body
     ELSE head \o << <<>> >> \o body

mergeEntryTwoSegments(contents, entry, fromLine) ==
  LET changelogLines == split(contents) IN
    join(combine(combine(<<>>, sliceTo(changelogLines, fromLine)), split(entry))
         \o sliceFrom(changelogLines, fromLine))

mergeEntryConcat(contents, entry, fromLine) ==
  LET changelogLines == split(contents) IN
    join(sliceTo(changelogLines, fromLine) \o split(entry)
         \o sliceFrom(changelogLines, fromLine))

\* The third task of the waterfall: contents -> the text to write.
mergeEntry(contents, entry, fromLine) ==
  LET changelogLines == split(contents) IN
    join(combine(combine(combine(<<>>, sliceTo(changelogLines, fromLine)),
                         split(entry)),
                 sliceFrom(changelogLines, fromLine)))

\* prepend(options, file, entry, callback): _.defaults, then the waterfall starts.
\* A call is made when no earlier call on the file is still running.
PrependCall(entry, fromLine) ==
  /\ clPc \in {"idle", "done"}
  /\ clEntry' = entry
  /\ clFromLine' = fromLine
  /\ clFile0' = clFile
  /\ clPc' = "touch"
  /\ clBuf' = <<>>
  /\ clEntries' = Append(clEntries, entry)
  /\ UNCHANGED <<clFile, clCallbacks, clError>>
  /\ UNCHANGED <<semVars, upVars>>

\* _.partial(touch, file, {}): creates the file, empty, when it does not exist.
TouchFile ==
  /\ clPc = "touch"
  /\ clFile' = IF clFile.exists THEN clFile ELSE FileOf(<<>>)
  /\ clPc' = "read"
  /\ UNCHANGED <<clFile0, clEntry, clFromLine, clBuf, clCallbacks, clError, clEntries>>
  /\ UNCHANGED <<semVars, upVars>>

\* fs.readFile(file, {encoding: 'utf8'}, done); touch has made the file exist.
ReadChangelog ==
  /\ clPc = "read"
  /\ clFile.exists
  /\ clBuf' = clFile.text
  /\ clPc' = "merge"
  /\ UNCHANGED <<clFile, clFile0, clEntry, clFromLine, clCallbacks, clError, clEntries>>
  /\ UNCHANGED <<semVars, upVars>>

\* (contents, done) => done(null, _.join(_.reduce([...], ...), '\n'))
MergeChangelog ==
  /\ clPc = "merge"
  /\ clBuf' = mergeEntry(clBuf, clEntry, clFromLine)
  /\ clPc' = "write"
  /\ UNCHANGED <<clFile, clFile0, clEntry, clFromLine, clCallbacks, clError, clEntries>>
  /\ UNCHANGED <<semVars, upVars>>

\* _.partial(fs.writeFile, file), then the waterfall's final callback.
WriteChangelog ==
  /\ clPc = "write"
  /\ clFile' = FileOf(clBuf)
  /\ clPc' = "done"
  /\ clCallbacks' = clCallbacks + 1
  /\ clError' = ""
  /\ UNCHANGED <<clFile0, clEntry, clFromLine, clBuf, clEntries>>
  /\ UNCHANGED <<semVars, upVars>>

DocChars == {NL, "a"}

EntryChars == {NL, "e"}

ClIdle ==
  /\ clFile = NoFile
  /\ clFile0 = NoFile
  /\ clEntry = <<>>
  /\ clFromLine = 0
  /\ clPc = "idle"
  /\ clBuf = <<>>
  /\ clCallbacks = 0
  /\ clError = ""
  /\ clEntries = <<>>

ClInit ==
  /\ clFile \in {NoFile} \cup {FileOf(t) : t \in SeqsUpTo(DocChars, MaxDocLen)}
  /\ clFile0 = clFile
  /\ clEntry = <<>>
  /\ clFromLine = 0
  /\ clPc = "idle"
  /\ clBuf = <<>>
  /\ clCallbacks = 0
  /\ clError = ""
  /\ clEntries = <<>>

\* One call on a file of any content.
ClCall ==
  /\ clPc = "idle"
  /\ \E entry \in SeqsUpTo(EntryChars, MaxEntryLen), fromLine \in 0..MaxFromLine :
       PrependCall(entry, fromLine)

ClNext == ClCall \/ TouchFile \/ ReadChangelog \/ MergeChangelog \/ WriteChangelog

\* The entries of the repeated calls: every text of at most two characters
\* and some longer ones with blank lines at both ends and inside.
RepeatEntries ==
  SeqsUpTo(EntryChars, 2)
    \cup { <<NL, "e", NL, NL>>, <<"e", NL, NL, "e", NL>>, <<NL, NL, "e", "e">> }

\* The file the repeated calls start from: missing or empty.
ClRepeatInit ==
  /\ clFile \in {NoFile, FileOf(<<>>)}
  /\ clFile0 = clFile
  /\ clEntry = <<>>
  /\ clFromLine = 0
  /\ clPc = "idle"
  /\ clBuf = <<>>
  /\ clCallbacks = 0
  /\ clError = ""
  /\ clEntries = <<>>

\* A call with the default fromLine (0), made after the previous one returned.
ClRepeatCall ==
  /\ Len(clEntries) < MaxCalls
  /\ \E entry \in RepeatEntries : PrependCall(entry, 0)

ClRepeatNext ==
  ClRepeatCall \/ TouchFile \/ ReadChangelog \/ MergeChangelog \/ WriteChangelog

-----------------------------------------------------------------------------
(* Regular expressions of lib/presets.js *)

\* Version strings and manifest texts are sequences of tokens. A token is a
\* character (a quote, a line feed) or a run of characters that every pattern
\* of the code matches or skips as a unit: "[package]", "name=" (the word
\* name, an equals sign and the blanks around it), "version=", "__version__=",
\* "[" (any other text holding an opening bracket), "1.0.1" and "0.1.0"
\* (semver cores), "-b" (a pre-release suffix), "v", "P" (the text a caller's
\* prefix regex matches).

DQ == "\""

SQ == "'"

IsQuote(ch) == ch \in {DQ, SQ}

\* The negated class [^[]: any token without an opening bracket.
NoBracket(ch) == ch \notin {"[package]", "["}

\* The token of an anchor that stands for (?:"|').
AnyQuote == "(?:\"|')"

Least(S) == CHOOSE x \in S : \A y \in S : x <= y

\* Whether the literal `lit` (AnyQuote matching either quote) occurs at c[i].
LitAt(c, i, lit) ==
  /\ i >= 1
  /\ i + Len(lit) - 1 <= Len(c)
  /\ \A k \in 1..Len(lit) :
       \/ lit[k] = c[i + k - 1]
       \/ lit[k] = AnyQuote /\ IsQuote(c[i + k - 1])

\* A quote, a lazy text of at least minLen tokens without a line feed, and a
\* back-reference to the quote, with the opening quote at c[q]: the index of
\* the closing quote, 0 when the sub-pattern does not match at q.
ClosingQuote(c, q, minLen) ==
  LET J == {j \in (q + 1 + minLen)..Len(c) :
              c[j] = c[q] /\ \A k \in (q + 1)..(j - 1) : c[k] # NL}
  IN IF q >= 1 /\ q <= Len(c) /\ IsQuote(c[q]) /\ J # {} THEN Least(J) ELSE 0

\* The positions v where the keyword of pattern p can stand for a match that
\* starts at i (v is the position right after the anchor when p has no keyword).
KeywordPositions(c, i, p) ==
  LET e == i + Len(p.anchor) - 1 IN
    IF p.kw = ""
    THEN {e}
    ELSE {v \in (e + 2)..Len(c) :
            /\ c[v] = p.kw
            /\ \A k \in (e + 1)..(v - 1) : NoBracket(c[k])}

\* The closing quote of the literal opened at c[q], 0 when none.
LiteralEnd(c, q, p) ==
  IF p.core = ""
  THEN ClosingQuote(c, q, p.minLen)
  ELSE IF q + 2 <= Len(c) /\ IsQuote(c[q]) /\ c[q + 1] \in {"1.0.1", "0.1.0"} /\ c[q + 2] = c[q]
       THEN q + 2 ELSE 0

\* The opening quotes of the matches of p that start at i.
QuotesAt(c, i, p) ==
  IF LitAt(c, i, p.anchor)
  THEN {v + 1 : v \in {w \in KeywordPositions(c, i, p) : LiteralEnd(c, w + 1, p) # 0}}
  ELSE {}

\* RegExp exec from position `from`: the leftmost start, and at that start the
\* shortest gap, then the shortest literal (all quantifiers are lazy).
firstMatch(c, p, from) ==
  LET starts == {i \in from..Len(c) : QuotesAt(c, i, p) # {}} IN
    IF from < 1 \/ starts = {}
    THEN NoMatch
    ELSE LET i == Least(starts)
             q == Least(QuotesAt(c, i, p))
         IN Match(TRUE, i, q, LiteralEnd(c, q, p))

\* pattern.test(contents) on a fresh RegExp (lastIndex 0).
test(c, p) == firstMatch(c, p, 1).found

\* The replacement string '$1$2' + v + '$2'. In a replacement string the
\* dollar sign, the ampersand and the digits 1 and 2 are tokens of their own.
replacementOf(v) == <<"$", "1", "$", "2">> \o v \o <<"$", "2">>

RECURSIVE getSubstitution(_, _, _)
\* String.prototype.replace expands a replacement string r for the match m
\* of a pattern with two groups: $$ is a dollar sign, $& the matched text, $1
\* the text before the opening quote, $2 the quote (also when a digit
\* follows, there being no group 20 to 29); any other dollar sign and any
\* other token stand for themselves.
getSubstitution(r, c, m) ==
  IF Len(r) = 0 THEN <<>>
  ELSE IF r[1] = "$" /\ Len(r) >= 2 /\ r[2] \in {"$", "&", "1", "2"}
  THEN (CASE r[2] = "$" -> <<"$">>
          [] r[2] = "&" -> SubSeq(c, m.start, m.end)
          [] r[2] = "1" -> SubSeq(c, m.start, m.quote - 1)
          [] r[2] = "2" -> <<c[m.quote]>>)
       \o getSubstitution(SubSeq(r, 3, Len(r)), c, m)
  ELSE <<r[1]>> \o getSubstitution(Tail(r), c, m)

RECURSIVE replaceFrom(_, _, _, _)
\* The text of c from position `from` on, with the matches of p replaced by
\* the expansion of '$1$2' + v + '$2'. All matches when p is global, the
\* first one otherwise.
replaceFrom(c, p, v, from) ==
  LET m == firstMatch(c, p, from) IN
    IF ~m.found
    THEN SubSeq(c, from, Len(c))
    ELSE SubSeq(c, from, m.start - 1) \o getSubstitution(replacementOf(v), c, m)
         \o (IF p.global
             THEN replaceFrom(c, p, v, m.end + 1)
             ELSE SubSeq(c, m.end + 1, Len(c)))

\* contents.replace(pattern, '$1$2' + cleanedVersion + '$2')
replaceVersion(c, p, v) == replaceFrom(c, p, v, 1)

\* Position of the first occurrence of the literal at or after `from`, 0 when none.
FirstLit(s, lit, from) ==
  LET I == {i \in from..Len(s) : LitAt(s, i, lit)} IN
    IF from < 1 \/ I = {} THEN 0 ELSE Least(I)

RECURSIVE stripFrom(_, _, _, _)
\* The text of s from `from` on with the matches of a literal regex removed:
\* all of them when the regex is global, the first one otherwise.
stripFrom(s, lit, global, from) ==
  LET i == FirstLit(s, lit, from) IN
    IF i = 0
    THEN SubSeq(s, from, Len(s))
    ELSE SubSeq(s, from, i - 1)
         \o (IF global
             THEN stripFrom(s, lit, global, i + Len(lit))
             ELSE SubSeq(s, i + Len(lit), Len(s)))

\* version.replace(options.clean, '') for a regex that matches the literal `lit`.
stripRegex(s, lit, global) == stripFrom(s, lit, global, 1)

-----------------------------------------------------------------------------
(* lib/presets.js: getCleanFunction *)

\* JavaScript falsiness of a value that is a string, null or undefined.
isFalsy(v) == v.kind \in {"null", "undefined"} \/ (v.kind = "str" /\ Len(v.s) = 0)

RECURSIVE dropLeadingV(_)
\* semver.clean strips the leading "v" (and "=") characters of the version.
dropLeadingV(s) == IF Len(s) > 0 /\ s[1] = "v" THEN dropLeadingV(Tail(s)) ELSE s

\* semver.clean on a string: the version without its leading v when the rest
\* is a semver core, alone or followed by a pre-release suffix; null otherwise.
semverClean(s) ==
  LET t == dropLeadingV(s) IN
    IF Len(t) >= 1 /\ t[1] = "1.0.1" /\ (Len(t) = 1 \/ t[2] = "-b")
    THEN Str(t)
    ELSE Null

\* _.defaults(options, {clean: true})
defaultClean(clean) == IF clean.kind = "undefined" THEN CleanFlag("true") ELSE clean

\* getCleanFunction(options)(version): the values the call can produce. A
\* regex policy calls version.replace, which throws a TypeError on null and
\* undefined; semver.clean on a value that is no string throws or gives null,
\* depending on the semver release; the identity returns its argument.
getCleanFunction(clean, version) ==
  IF defaultClean(clean).kind = "regex"
  THEN IF version.kind = "str"
       THEN {Str(stripRegex(version.s, clean.lit, clean.global))}
       ELSE {Thrown}
  ELSE IF defaultClean(clean).kind = "true"
  THEN IF version.kind = "str" THEN {semverClean(version.s)} ELSE {Thrown, Null}
  ELSE {version}

-----------------------------------------------------------------------------
(* lib/presets.js: replace and updateVersion *)

PackageJson == "package.json"

CargoToml == "Cargo.toml"

CargoLock == "Cargo.lock"

InitPy == "__init__.py"

QuotedFile == "f"

FileNames == {PackageJson, CargoToml, CargoLock, InitPy, QuotedFile}

\* path.isAbsolute (POSIX): the path starts with a slash.
isAbsolute(p) == Len(p) > 0 /\ p[1] = "/"

\* _.defaults(options, {baseDir: '.', regexFlags: ''})
defaultBaseDir(baseDir) == IF baseDir.kind = "undefined" THEN Str(<<".">>) ELSE baseDir

defaultRegexFlags(flags) == IF flags.kind = "undefined" THEN Str(<<>>) ELSE flags

quotedConfigErrorNoFileCheck(o) ==
  IF isAbsolute(defaultBaseDir(o.baseDir).s) THEN "InvalidConfiguration:baseDir"
  ELSE IF o.file.kind = "undefined" THEN "InvalidConfiguration:file missing"
  ELSE IF o.regex.kind = "undefined" THEN "InvalidConfiguration:regex missing"
  ELSE ""

\* The first failing check of quoted's options, "" when they all pass.
quotedConfigError(o) ==
  IF isAbsolute(defaultBaseDir(o.baseDir).s) THEN "InvalidConfiguration:baseDir"
  ELSE IF o.file.kind = "undefined" THEN "InvalidConfiguration:file missing"
  ELSE IF isAbsolute(o.file.s) THEN "InvalidConfiguration:file"
  ELSE IF o.regex.kind = "undefined" THEN "InvalidConfiguration:regex missing"
  ELSE ""

\* _.join(_.uniqBy(innerRegex.flags + options.regexFlags), ''): the flags of
\* the combined regex, as a set.
combinedRegexFlags(o) == Range(o.regex.flags) \cup Range(defaultRegexFlags(o.regexFlags).s)

\* new RegExp(combinedRegexSource, combinedRegexFlags): the prefix as group 1,
\* then the quoted literal.
quotedPattern(o) == Pattern(o.regex.lit, "", 0, "", "g" \in combinedRegexFlags(o))

packageNamePattern == Pattern(<<"[package]">>, "name=", 1, "", FALSE)

cargoLockPattern(name) ==
  Pattern(<<"name=", AnyQuote>> \o name \o <<AnyQuote>>, "version=", 0, "", FALSE)

cargoTomlPattern == Pattern(<<"[package]">>, "version=", 0, "", FALSE)

initPyPattern == Pattern(<<"__version__=">>, "", 0, "semver", TRUE)

packageJsonPattern == Pattern(<<"\"version\":">>, "", 0, "", FALSE)

NoPattern == Pattern(<<>>, "", 0, "", FALSE)

ConfigErrors ==
  {"InvalidConfiguration:baseDir", "InvalidConfiguration:file missing",
   "InvalidConfiguration:file", "InvalidConfiguration:regex missing"}

\* callback(error): the preset reports its outcome and is finished.
Callback(error) ==
  /\ callbacks' = callbacks + 1
  /\ cbError' = error
  /\ upPc' = "done"

\* replace(file, pattern, replacement, callback) is entered: the next step is
\* its fs.readFile.
StartReplace(file, pattern, then) ==
  /\ repFile' = file
  /\ repPattern' = pattern
  /\ repThen' = then
  /\ upPc' = "replace:read"

AfterCleanNoFalsyCheck(variant, o, cleaned) ==
  /\ cleanedVersion' = cleaned
  /\ IF cleaned.kind = "throw"
     THEN /\ upPc' = "thrown"
          /\ UNCHANGED <<callbacks, cbError, repFile, repPattern, repThen>>
     ELSE IF variant = "quoted"
     THEN /\ StartReplace(QuotedFile, quotedPattern(o), "callback")
          /\ UNCHANGED <<callbacks, cbError>>
     ELSE /\ upPc' = variant
          /\ UNCHANGED <<callbacks, cbError, repFile, repPattern, repThen>>

\* The synchronous part of a preset, after version cleaning gave `cleaned`.
AfterClean(variant, o, cleaned) ==
  /\ cleanedVersion' = cleaned
  /\ IF cleaned.kind = "throw"
     THEN /\ upPc' = "thrown"
          /\ UNCHANGED <<callbacks, cbError, repFile, repPattern, repThen>>
     ELSE IF isFalsy(cleaned)
     THEN /\ Callback("InvalidVersion")
          /\ UNCHANGED <<repFile, repPattern, repThen>>
     ELSE IF variant = "quoted"
     THEN /\ StartReplace(QuotedFile, quotedPattern(o), "callback")
          /\ UNCHANGED <<callbacks, cbError>>
     ELSE /\ upPc' = variant
          /\ UNCHANGED <<callbacks, cbError, repFile, repPattern, repThen>>

\* updateVersion[variant](options, cwd, version, callback), up to its first
\* asynchronous step: quoted checks its options, then every variant cleans the
\* version and rejects a falsy result.
updateVersion(variant, o, version) ==
  /\ upPc = "idle"
  /\ upVariant' = variant
  /\ upOptions' = o
  /\ upVersion' = version
  /\ fs0' = fs
  /\ IF variant = "quoted" /\ quotedConfigError(o) # ""
     THEN /\ Callback(quotedConfigError(o))
          /\ UNCHANGED <<cleanedVersion, repFile, repPattern, repThen>>
     ELSE \E cleaned \in getCleanFunction(o.clean, version) : AfterClean(variant, o, cleaned)
  /\ UNCHANGED <<fs, packageName, upBuf, ioLog>>
  /\ UNCHANGED <<semVars, clVars>>

\* updateJSON(packageJSON, {version: cleanedVersion}, ...): reads the document,
\* sets its version field (adds it when absent) and writes the document back.
setJsonVersion(doc, v) ==
  IF test(doc, packageJsonPattern)
  THEN LET m == firstMatch(doc, packageJsonPattern, 1) IN
         SubSeq(doc, 1, m.quote) \o v \o SubSeq(doc, m.end, Len(doc))
  ELSE SubSeq(doc, 1, Len(doc) - 1) \o <<",", "\"version\":", DQ>> \o v \o <<DQ, "}">>

NpmUpdateJSON ==
  /\ upPc = "npm"
  /\ IF fs[PackageJson].exists
     THEN /\ fs' = [fs EXCEPT ![PackageJson] =
                      FileOf(setJsonVersion(fs[PackageJson].text, cleanedVersion.s))]
          /\ ioLog' = ioLog \o << <<"read", PackageJson>>, <<"write", PackageJson>> >>
          /\ Callback("")
     ELSE /\ ioLog' = Append(ioLog, <<"read", PackageJson>>)
          /\ Callback("ENOENT")
          /\ UNCHANGED fs
  /\ UNCHANGED <<fs0, upVariant, upOptions, upVersion, cleanedVersion, packageName,
                 upBuf, repFile, repPattern, repThen>>
  /\ UNCHANGED <<semVars, clVars>>

\* replaceInFile({files, from, to}, (error) => { if (error) return callback(error) }):
\* every version literal is replaced; the callback is called on an error only.
InitPyReplaceInFile ==
  /\ upPc = "initPy"
  /\ IF fs[InitPy].exists
     THEN LET updated == replaceVersion(fs[InitPy].text, initPyPattern, cleanedVersion.s) IN
            /\ fs' = [fs EXCEPT ![InitPy] = FileOf(updated)]
            /\ ioLog' = ioLog \o (IF updated = fs[InitPy].text
                                  THEN << <<"read", InitPy>> >>
                                  ELSE << <<"read", InitPy>>, <<"write", InitPy>> >>)
            /\ upPc' = "done"
            /\ UNCHANGED <<callbacks, cbError>>
     ELSE /\ ioLog' = Append(ioLog, <<"read", InitPy>>)
          /\ Callback("ENOENT")
          /\ UNCHANGED fs
  /\ UNCHANGED <<fs0, upVariant, upOptions, upVersion, cleanedVersion, packageName,
                 upBuf, repFile, repPattern, repThen>>
  /\ UNCHANGED <<semVars, clVars>>

\* cargo, task 1: fs.readFile(cargoToml, 'utf8', done)
CargoReadToml ==
  /\ upPc = "cargo"
  /\ ioLog' = Append(ioLog, <<"read", CargoToml>>)
  /\ IF fs[CargoToml].exists
     THEN /\ upBuf' = fs[CargoToml].text
          /\ upPc' = "cargo:name"
          /\ UNCHANGED <<callbacks, cbError>>
     ELSE /\ Callback("ENOENT")
          /\ UNCHANGED upBuf
  /\ UNCHANGED <<fs, fs0, upVariant, upOptions, upVersion, cleanedVersion, packageName,
                 repFile, repPattern, repThen>>
  /\ UNCHANGED <<semVars, clVars>>

\* cargo, task 2: the first name = "..." after [package], in the same section.
CargoPackageName ==
  /\ upPc = "cargo:name"
  /\ LET matches == firstMatch(upBuf, packageNamePattern, 1) IN
       IF ~matches.found
       THEN /\ Callback("PackageNameNotFound")
            /\ UNCHANGED packageName
       ELSE /\ packageName' = SubSeq(upBuf, matches.quote + 1, matches.end - 1)
            /\ upPc' = "cargo:lock"
            /\ UNCHANGED <<callbacks, cbError>>
  /\ UNCHANGED <<fs, fs0, upVariant, upOptions, upVersion, cleanedVersion, upBuf,
                 repFile, repPattern, repThen, ioLog>>
  /\ UNCHANGED <<semVars, clVars>>

cargoLockStepSkipped ==
  /\ upPc' = "cargo:toml"
  /\ ioLog' = Append(ioLog, <<"exists", CargoLock>>)
  /\ UNCHANGED <<repFile, repPattern, repThen>>

\* cargo, task 3: when Cargo.lock exists, replace the version that follows
\* the package's name in it; otherwise go on.
cargoLockStep ==
  /\ ioLog' = Append(ioLog, <<"exists", CargoLock>>)
  /\ IF fs[CargoLock].exists
     THEN StartReplace(CargoLock, cargoLockPattern(packageName), "cargo:toml")
     ELSE /\ upPc' = "cargo:toml"
          /\ UNCHANGED <<repFile, repPattern, repThen>>

CargoUpdateLock ==
  /\ upPc = "cargo:lock"
  /\ cargoLockStep
  /\ UNCHANGED <<fs, fs0, upVariant, upOptions, upVersion, cleanedVersion, packageName,
                 upBuf, callbacks, cbError>>
  /\ UNCHANGED <<semVars, clVars>>

\* cargo, task 4: replace the first version = "..." after [package] in Cargo.toml.
CargoUpdateToml ==
  /\ upPc = "cargo:toml"
  /\ StartReplace(CargoToml, cargoTomlPattern, "callback")
  /\ UNCHANGED <<fs, fs0, upVariant, upOptions, upVersion, cleanedVersion, packageName,
                 upBuf, callbacks, cbError, ioLog>>
  /\ UNCHANGED <<semVars, clVars>>

\* replace, task 1: fs.readFile(file, 'utf8', done)
ReplaceRead ==
  /\ upPc = "replace:read"
  /\ ioLog' = Append(ioLog, <<"read", repFile>>)
  /\ IF fs[repFile].exists
     THEN /\ upBuf' = fs[repFile].text
          /\ upPc' = "replace:test"
          /\ UNCHANGED <<callbacks, cbError>>
     ELSE /\ Callback("ENOENT")
          /\ UNCHANGED upBuf
  /\ UNCHANGED <<fs, fs0, upVariant, upOptions, upVersion, cleanedVersion, packageName,
                 repFile, repPattern, repThen>>
  /\ UNCHANGED <<semVars, clVars>>

patternAcceptsOnlyOneMatch(contents, pattern) ==
  LET m == firstMatch(contents, pattern, 1) IN
    m.found /\ ~firstMatch(contents, pattern, m.end + 1).found

\* replace, task 2: the condition pattern.test(contents)
patternAccepts(contents, pattern) == test(contents, pattern)

patternNotFoundWithRollback ==
  /\ Callback("PatternNotFound")
  /\ fs' = fs0

\* replace, task 2, else branch: done(new Error(`Pattern does not match ...`))
\* ends the waterfall; nothing is written, nothing already written is undone.
patternNotFound ==
  /\ Callback("PatternNotFound")
  /\ UNCHANGED fs

ReplaceTest ==
  /\ upPc = "replace:test"
  /\ IF patternAccepts(upBuf, repPattern)
     THEN /\ upPc' = "replace:replace"
          /\ UNCHANGED <<fs, callbacks, cbError>>
     ELSE patternNotFound
  /\ UNCHANGED <<fs0, upVariant, upOptions, upVersion, cleanedVersion, packageName,
                 upBuf, repFile, repPattern, repThen, ioLog>>
  /\ UNCHANGED <<semVars, clVars>>

\* replace, task 3: contents.replace(pattern, replacement)
ReplaceReplace ==
  /\ upPc = "replace:replace"
  /\ upBuf' = replaceVersion(upBuf, repPattern, cleanedVersion.s)
  /\ upPc' = "replace:write"
  /\ UNCHANGED <<fs, fs0, upVariant, upOptions, upVersion, cleanedVersion, packageName,
                 repFile, repPattern, repThen, callbacks, cbError, ioLog>>
  /\ UNCHANGED <<semVars, clVars>>

\* replace, task 4: fs.writeFile(file, updated), then replace's callback: the
\* preset's callback, or the next task of cargo's waterfall.
ReplaceWrite ==
  /\ upPc = "replace:write"
  /\ fs' = [fs EXCEPT ![repFile] = FileOf(upBuf)]
  /\ ioLog' = Append(ioLog, <<"write", repFile>>)
  /\ IF repThen = "callback"
     THEN Callback("")
     ELSE /\ upPc' = repThen
          /\ UNCHANGED <<callbacks, cbError>>
  /\ UNCHANGED <<fs0, upVariant, upOptions, upVersion, cleanedVersion, packageName,
                 upBuf, repFile, repPattern, repThen>>
  /\ UNCHANGED <<semVars, clVars>>

UpSteps ==
  \/ NpmUpdateJSON
  \/ InitPyReplaceInFile
  \/ CargoReadToml
  \/ CargoPackageName
  \/ CargoUpdateLock
  \/ CargoUpdateToml
  \/ ReplaceRead
  \/ ReplaceTest
  \/ ReplaceReplace
  \/ ReplaceWrite

-----------------------------------------------------------------------------
(* The files and the arguments of the updateVersion presets *)

Files(json, toml, lock, py, quoted) ==
  [n \in FileNames |->
     IF n = PackageJson THEN json
     ELSE IF n = CargoToml THEN toml
     ELSE IF n = CargoLock THEN lock
     ELSE IF n = InitPy THEN py
     ELSE quoted]

NoFiles == Files(NoFile, NoFile, NoFile, NoFile, NoFile)

\* {"name":"x","version":"0.1.0"} and {"name":"x"}
JsonTexts ==
  { <<"{", "\"name\":\"x\"", ",", "\"version\":", DQ, "0.1.0", DQ, "}">>,
    <<"{", "\"name\":\"x\"", "}">> }

\* Cargo.toml: a complete [package] section; one without a name; one whose
\* version is in a later section only; one whose name is in a later section only.
TomlTexts ==
  { <<"[package]", NL, "name=", DQ, "a", DQ, NL, "version=", DQ, "0.1.0", DQ, NL>>,
    <<"[package]", NL, "version=", DQ, "0.1.0", DQ, NL>>,
    <<"[package]", NL, "name=", SQ, "a", SQ, NL, "[", NL, "version=", DQ, "0.1.0", DQ, NL>>,
    <<"[package]", NL, "[", NL, "name=", DQ, "a", DQ, NL, "version=", DQ, "0.1.0", DQ, NL>> }

\* Cargo.lock: packages b and a; package b only; package a without a version
\* in its section, followed by package b; package a twice.
LockTexts ==
  { <<"[", NL, "name=", DQ, "b", DQ, NL, "version=", DQ, "0.1.0", DQ, NL,
      "[", NL, "name=", DQ, "a", DQ, NL, "version=", DQ, "0.1.0", DQ, NL>>,
    <<"[", NL, "name=", DQ, "b", DQ, NL, "version=", DQ, "0.1.0", DQ, NL>>,
    <<"[", NL, "name=", DQ, "a", DQ, NL,
      "[", NL, "name=", DQ, "b", DQ, NL, "version=", DQ, "0.1.0", DQ, NL>>,
    <<"[", NL, "name=", DQ, "a", DQ, NL, "version=", DQ, "0.1.0", DQ, NL,
      "[", NL, "name=", DQ, "a", DQ, NL, "version=", SQ, "0.1.0", SQ, NL>> }

PyTexts ==
  { <<"__version__=", SQ, "0.1.0", SQ, NL>>,
    <<"__version__=", SQ, "-b", SQ, NL>> }

QuotedTexts ==
  { <<"P", DQ, "0.1.0", DQ, NL>>,
    <<"v", DQ, "0.1.0", DQ, NL>>,
    <<"P", DQ, "0.1.0", DQ, NL, "P", SQ, "0.1.0", SQ, NL>> }

\* The file systems of the model: the files of one preset at a time.
UpdateFileSystems ==
  {NoFiles}
    \cup {Files(FileOf(t), NoFile, NoFile, NoFile, NoFile) : t \in JsonTexts}
    \cup {Files(NoFile, FileOf(t), NoFile, NoFile, NoFile) : t \in TomlTexts}
    \cup {Files(NoFile, FileOf(t), FileOf(l), NoFile, NoFile) : t \in TomlTexts, l \in LockTexts}
    \cup {Files(NoFile, NoFile, NoFile, FileOf(t), NoFile) : t \in PyTexts}
    \cup {Files(NoFile, NoFile, NoFile, NoFile, FileOf(t)) : t \in QuotedTexts}

VersionArgs ==
  { Str(<<>>), Str(<<"1.0.1">>), Str(<<"v", "1.0.1">>), Str(<<"1.0.1", "-b">>),
    Str(<<"-b">>), Undefined, Null }

CleanOptions ==
  { CleanFlag("undefined"), CleanFlag("true"), CleanFlag("false"),
    CleanRegex(<<"-b">>, FALSE), CleanRegex(<<"-b">>, TRUE) }

\* The options of npm, cargo and initPy: clean only.
PlainOptions == {Options(c, Undefined, Undefined, NoRegex, Undefined) : c \in CleanOptions}

QuotedOptions ==
  { Options(c, d, f, r, g) :
      c \in CleanOptions,
      d \in {Undefined, Str(<<".">>), Str(<<"/", "d">>)},
      f \in {Undefined, Str(<<"f">>), Str(<<"/", "f">>)},
      r \in {NoRegex, Regex(<<"P">>, <<>>), Regex(<<"P">>, <<"g">>)},
      g \in {Undefined, Str(<<"g">>)} }

UpIdle(files) ==
  /\ fs = files
  /\ fs0 = files
  /\ upVariant = ""
  /\ upOptions = Options(CleanFlag("undefined"), Undefined, Undefined, NoRegex, Undefined)
  /\ upVersion = Undefined
  /\ upPc = "idle"
  /\ cleanedVersion = NotComputed
  /\ packageName = <<>>
  /\ upBuf = <<>>
  /\ repFile = ""
  /\ repPattern = NoPattern
  /\ repThen = ""
  /\ ioLog = <<>>
  /\ callbacks = 0
  /\ cbError = ""

UpCall ==
  \/ \E variant \in {"npm", "cargo", "initPy"}, o \in PlainOptions, version \in VersionArgs :
       updateVersion(variant, o, version)
  \/ \E o \in QuotedOptions, version \in VersionArgs :
       updateVersion("quoted", o, version)

\* The characters of the files the quoted preset is checked on.
ContentChars == {"P", DQ, SQ, NL}

\* The versions the quoted preset is checked on: a semver, and strings with
\* dollar signs, which the identity cleaning policy lets through.
ReplaceVersions ==
  { <<"1.0.1">>, <<"1.0.1", "$">>, <<"1.0.1", "$", "&">>, <<"$", "$">> }

ReplaceCall ==
  \E r \in {Regex(<<"P">>, <<>>), Regex(<<"P">>, <<"g">>)}, v \in ReplaceVersions :
    updateVersion("quoted",
                  Options(CleanFlag("false"), Undefined, Str(<<"f">>), r, Undefined),
                  Str(v))

\* The tokens of the versions the cleaning policies are checked on.
VersionTokens == {"v", "1.0.1", "-b"}

CleanCall ==
  \E version \in {Str(s) : s \in SeqsUpTo(VersionTokens, MaxVersionLen)} \cup {Undefined, Null},
     c \in CleanOptions \cup {CleanRegex(<<"v">>, FALSE), CleanRegex(<<"-b", "-b">>, TRUE)} :
    updateVersion("npm", Options(c, Undefined, Undefined, NoRegex, Undefined), version)

-----------------------------------------------------------------------------
(* Specifications *)

\* The increment-level resolver.
Init == SemInit /\ ClIdle /\ UpIdle(NoFiles)

Next == SemNext

Spec == Init /\ [][Next]_vars

\* One call of addEntryToChangelog.prepend on an arbitrary changelog file.
InitChangelog == SemInit /\ ClInit /\ UpIdle(NoFiles)

NextChangelog == ClNext

SpecChangelog == InitChangelog /\ [][NextChangelog]_vars

\* Calls of addEntryToChangelog.prepend one after the other, at line 0, on a
\* file that is missing or empty at first.
InitRepeat == SemInit /\ ClRepeatInit /\ UpIdle(NoFiles)

NextRepeat == ClRepeatNext

SpecRepeat == InitRepeat /\ [][NextRepeat]_vars

\* One call of an updateVersion preset.
InitUpdate == SemInit /\ ClIdle /\ \E files \in UpdateFileSystems : UpIdle(files)

NextUpdate == UpCall \/ UpSteps

SpecUpdate == InitUpdate /\ [][NextUpdate]_vars

\* One call of the quoted preset, with valid options, on an arbitrary file.
InitReplace ==
  /\ SemInit
  /\ ClIdle
  /\ \E t \in SeqsUpTo(ContentChars, MaxContentLen) :
       UpIdle(Files(NoFile, NoFile, NoFile, NoFile, FileOf(t)))

NextReplace == ReplaceCall \/ ReplaceRead \/ ReplaceTest \/ ReplaceReplace \/ ReplaceWrite

SpecReplace == InitReplace /\ [][NextReplace]_vars

\* Version cleaning, through the npm preset in a directory without package.json.
InitClean == SemInit /\ ClIdle /\ UpIdle(NoFiles)

NextClean == CleanCall \/ NpmUpdateJSON

SpecClean == InitClean /\ [][NextClean]_vars

-----------------------------------------------------------------------------
(* Claims about lib/semver.js *)

NoneLevels == {"null", "undefined"}

\* The greatest level of a set of level values under patch < minor < major,
\* "null" when the set holds no level.
MaxPresent(S) ==
  IF "major" \in S THEN "major"
  ELSE IF "minor" \in S THEN "minor"
  ELSE IF "patch" \in S THEN "patch"
  ELSE "null"

AllowedLevels == Range(VALID_INCREMENT_LEVELS) \cup NoneLevels

\* C1: for a non-empty commit list whose levels are patch, minor, major or
\* none, the call returns (never throws), the value returned is the greatest
\* level present, and it is null exactly when every level is none. The
\* result is a function of the set of levels present, hence independent of
\* the order of the commits.
C1_ResolveIsMaximum ==
  (/\ semStatus \in {"returned", "thrown"}
   /\ commits.given
   /\ Len(commits.list) > 0
   /\ Range(commits.list) \subseteq AllowedLevels)
  => /\ semStatus = "returned"
     /\ currentLevel = MaxPresent(Range(commits.list))
     /\ (currentLevel = "null" <=> Range(commits.list) \subseteq NoneLevels)

C1_Witness ==
  /\ semStatus = "returned"
  /\ commits.list = <<"patch", "major", "minor">>
  /\ currentLevel = "major"

\* C10: an empty or missing commit list raises EmptyCommitSet, never returns,
\* and the classification callback is not invoked.
C10_EmptyCommitSetThrows ==
  (semStatus # "idle" /\ isEmptyCommits(commits))
  => /\ semStatus = "thrown"
     /\ semError = "EmptyCommitSet"
     /\ classifyCalls = 0

C10_Witness ==
  /\ semStatus = "thrown"
  /\ semError = "EmptyCommitSet"
  /\ commits.given
  /\ commits.list = <<>>

-----------------------------------------------------------------------------
(* Claims about addEntryToChangelog.prepend *)

\* Number of places where two consecutive lines are both blank.
DoubleBlanks(ls) == Cardinality({i \in 1..(Len(ls) - 1) : isEmptyLine(ls[i]) /\ isEmptyLine(ls[i + 1])})

\* Number of blank lines at the end of a sequence of lines.
TrailingBlanks(ls) == Len(ls) - Len(dropRightWhileEmpty(ls))

HasContent(ls) == \E i \in 1..Len(ls) : ~isEmptyLine(ls[i])

\* The three segments of a finished call, as the lines of its inputs.
HeadLines == sliceTo(split(clFile0.text), clFromLine)

EntryLines == split(clEntry)

TailLines == sliceFrom(split(clFile0.text), clFromLine)

OutLines == split(clFile.text)

PrependDone == clPc = "done" /\ clError = ""

\* The merge adds no pair of consecutive blank lines: those of the output are
\* the ones inside the trimmed head, inside the trimmed entry and inside the
\* tail after its leading blank lines.
NoDoubleBlankAtBoundaries ==
  DoubleBlanks(OutLines) =
    DoubleBlanks(dropRightWhileEmpty(dropWhileEmpty(HeadLines)))
    + DoubleBlanks(dropRightWhileEmpty(dropWhileEmpty(EntryLines)))
    + DoubleBlanks(dropWhileEmpty(TailLines))

NoLeadingBlank == Len(clFile.text) = 0 \/ clFile.text[1] # NL

\* C6 as stated: no double blank line at the boundaries, no blank line at the
\* start of the document and no run of blank lines at its end (the text does
\* not end with two line feeds).
C6_NoBlankRunsAsStated ==
  PrependDone =>
    /\ NoDoubleBlankAtBoundaries
    /\ NoLeadingBlank
    /\ TrailingBlanks(OutLines) <= 1

\* C6 amended: no double blank line at the boundaries and no blank line at the
\* start of the document; at the end of the document the blank lines are those
\* the tail segment already ended with when the tail has a non-blank line, and
\* at most one otherwise.
C6_NoBlankRunsAmended ==
  PrependDone =>
    /\ NoDoubleBlankAtBoundaries
    /\ NoLeadingBlank
    /\ IF HasContent(TailLines)
       THEN TrailingBlanks(OutLines) = TrailingBlanks(TailLines)
       ELSE TrailingBlanks(OutLines) <= 1

\* A call whose head ends with a blank line, whose entry starts and ends with
\* one and whose tail starts with one, all three having content.
C6_Witness ==
  /\ PrependDone
  /\ clFile0.text = <<"a", NL, NL, NL, "a">>
  /\ clFromLine = 2
  /\ clEntry = <<NL, "e", NL>>
  /\ clFile.text = <<"a", NL, NL, "e", NL, NL, "a">>

RECURSIVE StripLeadingNL(_)
StripLeadingNL(t) == IF Len(t) > 0 /\ t[1] = NL THEN StripLeadingNL(Tail(t)) ELSE t

RECURSIVE StripTrailingNL(_)
StripTrailingNL(t) ==
  IF Len(t) > 0 /\ t[Len(t)] = NL THEN StripTrailingNL(SubSeq(t, 1, Len(t) - 1)) ELSE t

\* C7 as stated: on a missing file the call succeeds and the file holds
\* exactly the entry text without its leading blank lines.
C7_MissingFileAsStated ==
  (clPc = "done" /\ ~clFile0.exists) =>
    /\ clError = ""
    /\ clFile.exists
    /\ clFile.text = StripLeadingNL(clEntry)

\* C7 amended: on a missing file the call succeeds, creates the file, and the
\* file holds the entry text without its leading blank lines and with its
\* trailing blank lines replaced by one terminating line feed; it is empty
\* when the entry has no non-blank line.
C7_MissingFileAmended ==
  (clPc = "done" /\ ~clFile0.exists) =>
    /\ clError = ""
    /\ clCallbacks = 1
    /\ clFile.exists
    /\ LET core == StripTrailingNL(StripLeadingNL(clEntry)) IN
         clFile.text = IF Len(core) = 0 THEN <<>> ELSE core \o <<NL>>

C7_Witness ==
  /\ clPc = "done"
  /\ ~clFile0.exists
  /\ clEntry = <<NL, "e", NL, NL>>
  /\ clFile = FileOf(<<"e", NL>>)

\* The lines of a segment from its first non-blank line on.
TrimLeadingBlank(ls) ==
  IF HasContent(ls)
  THEN SubSeq(ls, CHOOSE i \in 1..Len(ls) :
                    ~isEmptyLine(ls[i]) /\ \A j \in 1..(i - 1) : isEmptyLine(ls[j]),
              Len(ls))
  ELSE <<>>

\* The lines of a segment up to its last non-blank line.
TrimTrailingBlank(ls) ==
  IF HasContent(ls)
  THEN SubSeq(ls, 1, CHOOSE i \in 1..Len(ls) :
                       ~isEmptyLine(ls[i]) /\ \A j \in (i + 1)..Len(ls) : isEmptyLine(ls[j]))
  ELSE <<>>

\* The combination rule of the claim: trimmed-acc when trimmed-next follows
\* nothing, otherwise trimmed-acc, one blank line, trimmed-next.
CombineRule(acc, next) ==
  IF Len(TrimTrailingBlank(acc)) = 0
  THEN TrimLeadingBlank(next)
  ELSE TrimTrailingBlank(acc) \o << <<>> >> \o TrimLeadingBlank(next)

\* C11 as stated: the written text is the lines of
\* combine(combine(head, middle), tail), the head entering the first
\* combination as it is (only its trailing blank lines trimmed).
C11_MergeIsTwoCombinesAsStated ==
  PrependDone =>
    clFile.text = join(CombineRule(CombineRule(HeadLines, EntryLines), TailLines))

\* C11 amended: the written text is the lines of
\* combine(combine(head', middle), tail) where head' is the head without its
\* leading blank lines: the head loses its leading blank lines too.
C11_MergeIsTwoCombinesAmended ==
  PrependDone =>
    clFile.text =
      join(CombineRule(CombineRule(TrimLeadingBlank(HeadLines), EntryLines), TailLines))

\* A call whose head starts with a blank line and has content.
C11_Witness ==
  /\ PrependDone
  /\ clFile0.text = <<NL, "a", NL, "a">>
  /\ clFromLine = 2
  /\ clEntry = <<"e">>
  /\ clFile.text = <<"a", NL, NL, "e", NL, NL, "a">>

\* An entry without its leading and trailing blank lines.
EntryCore(e) == StripTrailingNL(StripLeadingNL(e))

RECURSIVE DocOfEntries(_)
\* The document made of the entries that have a non-blank line, the newest
\* first, each without its leading and trailing blank lines, one blank line
\* between two entries and one line feed at the end.
DocOfEntries(es) ==
  IF Len(es) = 0 THEN <<>>
  ELSE LET older == DocOfEntries(SubSeq(es, 1, Len(es) - 1))
           core == EntryCore(es[Len(es)])
       IN IF Len(core) = 0 THEN older
          ELSE IF Len(older) = 0 THEN core \o <<NL>>
          ELSE core \o <<NL, NL>> \o older

EndsWithOneNewline(t) ==
  /\ Len(t) >= 1
  /\ t[Len(t)] = NL
  /\ Len(t) >= 2 => t[Len(t) - 1] # NL

RepeatDone == clPc = "done" /\ clError = "" /\ clFromLine = 0

\* C12 as stated: after any sequence of calls at index 0 from a missing or
\* empty file the document has no leading blank line, ends with exactly one
\* line feed, holds the inserted entries newest first with exactly one blank
\* line between two of them, and a call with a blank-only entry leaves the
\* document as it was.
C12_NoSeparatorAccumulationAsStated ==
  RepeatDone =>
    /\ NoLeadingBlank
    /\ EndsWithOneNewline(clFile.text)
    /\ clFile.text = DocOfEntries(clEntries)
    /\ Len(EntryCore(clEntry)) = 0 => clFile.text = clFile0.text

\* C12 amended: as stated, except that the document is empty, and so ends
\* with no line feed, as long as no entry with a non-blank line was inserted.
C12_NoSeparatorAccumulationAmended ==
  RepeatDone =>
    /\ NoLeadingBlank
    /\ IF \E k \in 1..Len(clEntries) : Len(EntryCore(clEntries[k])) > 0
       THEN EndsWithOneNewline(clFile.text)
       ELSE Len(clFile.text) = 0
    /\ clFile.text = DocOfEntries(clEntries)
    /\ Len(EntryCore(clEntry)) = 0 => clFile.text = clFile0.text

\* Three calls, the second with a blank-only entry, the others with blank
\* lines around their content.
C12_Witness ==
  /\ RepeatDone
  /\ clEntries = << <<NL, "e", NL, NL>>, <<NL>>, <<"e", NL, NL, "e", NL>> >>
  /\ clFile.text = <<"e", NL, NL, "e", NL, NL, "e", NL>>

-----------------------------------------------------------------------------
(* Claims about the updateVersion presets *)

Accessed(op, file) == \E i \in 1..Len(ioLog) : ioLog[i] = <<op, file>>

Accesses(op, file) == Cardinality({i \in 1..Len(ioLog) : ioLog[i] = <<op, file>>})

\* C2: in every preset and under every cleaning policy, a cleaned version
\* that is empty, null or undefined is reported as InvalidVersion, once, and
\* no file has been read or written.
C2_FalsyCleanedVersionAborts ==
  (cleanedVersion.kind # "none" /\ isFalsy(cleanedVersion)) =>
    /\ upPc = "done"
    /\ callbacks = 1
    /\ cbError = "InvalidVersion"
    /\ ioLog = <<>>
    /\ fs = fs0

C2_Witness ==
  /\ upVariant = "cargo"
  /\ fs0[CargoToml].exists
  /\ upOptions.clean.kind = "regex"
  /\ upVersion = Str(<<"-b">>)
  /\ cleanedVersion = Str(<<>>)
  /\ cbError = "InvalidVersion"

RECURSIVE countMatches(_, _, _)
\* Number of non-overlapping matches of a pattern in a text, from `from` on.
countMatches(c, p, from) ==
  LET m == firstMatch(c, p, from) IN
    IF m.found THEN 1 + countMatches(c, p, m.end + 1) ELSE 0

\* A finished call of replace on the existing file of the quoted preset.
QuotedReplaceDone ==
  /\ upPc = "done"
  /\ upVariant = "quoted"
  /\ repFile = QuotedFile
  /\ fs0[QuotedFile].exists

QuotedMatchCount == countMatches(fs0[QuotedFile].text, quotedPattern(upOptions), 1)

\* C3 as stated: replace fails with pattern-not-found whenever the pattern
\* does not match exactly once, and writes the file only on exactly one match.
C3_ExactlyOneMatchAsStated ==
  QuotedReplaceDone =>
    /\ (cbError = "PatternNotFound") <=> (QuotedMatchCount # 1)
    /\ Accessed("write", QuotedFile) => QuotedMatchCount = 1

\* C3 amended: replace fails with pattern-not-found exactly when the pattern
\* matches nowhere in the file; whenever it matches at least once, be it once
\* or several times, replace writes the file and reports no error.
C3_AtLeastOneMatchAmended ==
  QuotedReplaceDone =>
    /\ (cbError = "PatternNotFound") <=> (QuotedMatchCount = 0)
    /\ (cbError = "") <=> (QuotedMatchCount >= 1)
    /\ Accessed("write", QuotedFile) <=> (QuotedMatchCount >= 1)
    /\ QuotedMatchCount = 0 => fs = fs0

C3_Witness ==
  /\ QuotedReplaceDone
  /\ QuotedMatchCount = 2
  /\ cbError = ""
  /\ Accessed("write", QuotedFile)
  /\ fs # fs0

\* cargo has captured the package name from Cargo.toml.
CargoNameFound == upVariant = "cargo" /\ Len(packageName) > 0

LockHadEntry == test(fs0[CargoLock].text, cargoLockPattern(packageName))

TomlHadVersion == test(fs0[CargoToml].text, cargoTomlPattern)

\* C4: when Cargo.lock exists, Cargo.toml is written only after Cargo.lock has
\* been; and when Cargo.lock has no version after the package's name in one
\* section, the call ends with that error, the update of Cargo.toml never
\* starts (Cargo.toml is read once, for the name) and Cargo.toml is unchanged.
C4_LockBeforeManifest ==
  (upVariant = "cargo" /\ fs0[CargoLock].exists) =>
    /\ \A i \in 1..Len(ioLog) :
         ioLog[i] = <<"write", CargoToml>> =>
           \E j \in 1..(i - 1) : ioLog[j] = <<"write", CargoLock>>
    /\ (CargoNameFound /\ ~LockHadEntry) =>
         /\ upPc # "cargo:toml"
         /\ repFile # CargoToml
         /\ Accesses("read", CargoToml) = 1
         /\ ~Accessed("write", CargoToml)
         /\ fs[CargoToml] = fs0[CargoToml]
         /\ upPc = "done" => (cbError = "PatternNotFound" /\ callbacks = 1)
         /\ upPc \in {"cargo:lock", "replace:read", "replace:test", "done"}

C4_Witness ==
  /\ upPc = "done"
  /\ CargoNameFound
  /\ fs0[CargoLock].exists
  /\ ~LockHadEntry
  /\ repFile = CargoLock
  /\ cbError = "PatternNotFound"
  /\ Accessed("read", CargoLock)

\* The text of Cargo.lock gives version v to package `name`.
LockGivesVersion(lock, name, v) ==
  \E i \in 1..Len(lock) :
    LitAt(lock, i, <<"name=", AnyQuote>> \o name \o <<AnyQuote, NL, "version=", AnyQuote>>
                     \o v \o <<AnyQuote>>)

\* C5: when Cargo.lock has been updated and Cargo.toml has the package's name
\* but no version literal in its [package] section, the call reports the
\* error, Cargo.toml is unchanged and Cargo.lock keeps the new version.
C5_NoRollbackOfLock ==
  (/\ upPc = "done"
   /\ CargoNameFound
   /\ fs0[CargoLock].exists
   /\ LockHadEntry
   /\ ~TomlHadVersion)
  => /\ cbError = "PatternNotFound"
     /\ callbacks = 1
     /\ repFile = CargoToml
     /\ fs[CargoToml] = fs0[CargoToml]
     /\ fs[CargoLock] # fs0[CargoLock]
     /\ LockGivesVersion(fs[CargoLock].text, packageName, cleanedVersion.s)
     /\ ~LockGivesVersion(fs0[CargoLock].text, packageName, cleanedVersion.s)

C5_Witness ==
  /\ upPc = "done"
  /\ CargoNameFound
  /\ cbError = "PatternNotFound"
  /\ repFile = CargoToml
  /\ fs[CargoToml] = fs0[CargoToml]
  /\ fs[CargoLock] # fs0[CargoLock]
  /\ LockGivesVersion(fs[CargoLock].text, packageName, <<"1.0.1">>)

RECURSIVE RemoveEveryMatch(_, _)
\* A text without the non-overlapping occurrences of a literal, left to right.
RemoveEveryMatch(s, lit) ==
  IF Len(s) = 0 THEN <<>>
  ELSE IF LitAt(s, 1, lit) THEN RemoveEveryMatch(SubSeq(s, Len(lit) + 1, Len(s)), lit)
  ELSE <<s[1]>> \o RemoveEveryMatch(Tail(s), lit)

\* C8: under a regex cleaning policy the cleaned version is the version
\* without any match of the regex, whatever the flags of the regex.
C8_RegexCleanRemovesEveryMatch ==
  (upPc # "idle" /\ upOptions.clean.kind = "regex" /\ upVersion.kind = "str") =>
    cleanedVersion = Str(RemoveEveryMatch(upVersion.s, upOptions.clean.lit))

\* The conditions under which quoted rejects its options.
QuotedBadOptions ==
  \/ upOptions.baseDir.kind = "str" /\ upOptions.baseDir.s[1] = "/"
  \/ upOptions.file.kind = "undefined"
  \/ upOptions.file.kind = "str" /\ upOptions.file.s[1] = "/"
  \/ upOptions.regex.kind = "undefined"

\* C9: quoted reports InvalidConfiguration when baseDir or file is absolute,
\* or file or regex is missing; the version has then not been cleaned and no
\* file has been read or written.
C9_InvalidConfigurationFirst ==
  (upVariant = "quoted" /\ QuotedBadOptions) =>
    /\ upPc = "done"
    /\ callbacks = 1
    /\ cbError \in ConfigErrors
    /\ cleanedVersion = NotComputed
    /\ ioLog = <<>>
    /\ fs = fs0

C9_Witness ==
  /\ upVariant = "quoted"
  /\ upOptions.baseDir = Undefined
  /\ upOptions.file = Str(<<"/", "f">>)
  /\ upOptions.regex.kind = "regex"
  /\ upVersion = Str(<<>>)
  /\ upOptions.clean.kind = "false"
  /\ cbError = "InvalidConfiguration:file"

-----------------------------------------------------------------------------
(* Claims about the replacement of the quoted preset *)

RECURSIVE PayloadReplaced(_, _, _, _)
\* The text of c from `from` on in which the payload of the matched literal
\* (of every matched literal when p is global) is v, character for
\* character, and every other character is as it was.
PayloadReplaced(c, p, v, from) ==
  LET m == firstMatch(c, p, from) IN
    IF ~m.found
    THEN SubSeq(c, from, Len(c))
    ELSE SubSeq(c, from, m.quote) \o v \o <<c[m.end]>>
         \o (IF p.global
             THEN PayloadReplaced(c, p, v, m.end + 1)
             ELSE SubSeq(c, m.end + 1, Len(c)))

\* C13: replace changes nothing outside the payload of the matched quoted
\* literal. On success the file is its old content with the payload replaced
\* by the cleaned version, the prefix and both quotes kept; on a
\* pattern-not-found error the file is unchanged. No other file changes.
C13_OnlyPayloadChanges ==
  QuotedReplaceDone =>
    /\ cbError = "PatternNotFound" => fs = fs0
    /\ cbError = "" =>
         /\ fs[QuotedFile].text =
              PayloadReplaced(fs0[QuotedFile].text, quotedPattern(upOptions),
                              cleanedVersion.s, 1)
         /\ \A n \in FileNames \ {QuotedFile} : fs[n] = fs0[n]

-----------------------------------------------------------------------------
(* Claims about the callback of the updateVersion presets *)

\* C14: a call of an updateVersion preset calls its callback exactly once:
\* never more than once, once by the time the preset has finished its work,
\* and without an error only after the target file has been written.
C14_CallbackExactlyOnce ==
  /\ callbacks <= 1
  /\ upPc = "done" => callbacks = 1
  /\ (upPc = "done" /\ callbacks = 1 /\ cbError = "") =>
       (Len(ioLog) > 0 /\ ioLog[Len(ioLog)][1] = "write")

====
